---- MODULE Spec2Model ----
(***************************************************************************)
(* Model of the daily content pipeline of ai-content-generator:            *)
(*   generate_ideas.py   (Cron Job 1, "IdeaProposalJob")                   *)
(*   generate_article.py (Cron Job 2, "ArticleGenerationJob")              *)
(*   discord_notifier.py (notification gateway)                            *)
(* coordinated through a GitHub Gist used as a document store.             *)
(*                                                                         *)
(* Text is modelled as a sequence of tokens (strings); a JSON document is  *)
(* a record; Python's None / JSON null for an identifier is "None".        *)
(***************************************************************************)
EXTENDS Integers, Sequences, FiniteSets, TLC

\* ------------------------------------------------------------------ bounds
MaxHist == 2        \* history entries the store may hold before jobs stop
MaxGists == 1       \* marker containers that may be created
MaxPast == 52       \* longest history a run of SpecPrompt finds
MaxListed == 3      \* gists the account holds when a run of SpecFind starts
MaxTags == 2        \* hashtags in a response SpecParse starts from

\* ------------------------------------------------------- program constants
max_retries == 3
retry_delay == 5

None == "None"
MARKER == "AI Article Selection"
SELECTION_FILE == "article_selection.json"
HISTORY_FILE == "article_history.json"

\* outcome of one HTTP call to the document store
StoreOutcomes == {"ok", "http_error", "exception"}

\* what a run notes of a store call that did not succeed
ReadFailure(outcome) == IF outcome = "ok" THEN {} ELSE {"read_failed"}
WriteFailure(outcome) == IF outcome = "ok" THEN {} ELSE {"write_failed"}

\* ----------------------------------------------------------- Python lists
Last(s) == s[Len(s)]
Front(s) == SubSeq(s, 1, Len(s) - 1)

\* a[-n:]
LastN(s, n) == IF Len(s) <= n THEN s ELSE SubSeq(s, Len(s) - n + 1, Len(s))

\* str.startswith on token sequences
StartsWith(s, prefix) ==
    /\ Len(prefix) <= Len(s)
    /\ SubSeq(s, 1, Len(prefix)) = prefix

\* index of the first occurrence of tok in s at a position > from, 0 if none
FirstAfter(s, tok, from) ==
    LET hits == {i \in (from + 1)..Len(s) : s[i] = tok}
    IN  IF hits = {} THEN 0 ELSE CHOOSE i \in hits : \A j \in hits : i <= j

\* str.strip(): leading and trailing whitespace tokens removed
RECURSIVE LStrip(_)
LStrip(s) == IF s # <<>> /\ Head(s) = "ws" THEN LStrip(Tail(s)) ELSE s
RECURSIVE RStrip(_)
RStrip(s) == IF s # <<>> /\ Last(s) = "ws" THEN RStrip(Front(s)) ELSE s
Strip(s) == RStrip(LStrip(s))

\* ------------------------------------------------------------ the store
\* Description when the date comes before the marker
Description_dated(day) == <<day, " - ", MARKER>>

\* the description create_or_update_gist writes: f"AI Article Selection - {date}"
Description(day) == <<MARKER, " - ", day>>

description_prefix == <<MARKER>>

NewId(n) == CASE n = 1 -> "g1" [] n = 2 -> "g2" [] n = 3 -> "g3" [] OTHER -> "g4"

\* position of gist `id` in the enumeration, 0 if absent
PosOf(gs, id) ==
    LET hits == {i \in 1..Len(gs) : gs[i].id = id}
    IN  IF hits = {} THEN 0 ELSE CHOOSE i \in hits : TRUE

\* the description of a gist that has none: JSON null, None in Python
NullDescription == <<"null">>

\* GistManager.get_gist_by_description: the gists are looked at in enumeration
\* order up to the first match; gist.get("description", "") is None for a
\* null description and None.startswith raises AttributeError
get_gist_by_description(gs, prefix, outcome) ==
    IF outcome = "ok"
    THEN LET hits == {i \in 1..Len(gs) : StartsWith(gs[i].description, prefix)}
             first == IF hits = {} THEN Len(gs) + 1
                      ELSE CHOOSE i \in hits : \A j \in hits : i <= j
         IN  IF \E i \in 1..(first - 1) : gs[i].description = NullDescription
             THEN "AttributeError"
             ELSE IF hits = {} THEN None
             ELSE gs[first].id
    ELSE None

\* json.dumps / json.loads of a document stored in a gist file
JsonDumps(doc) == [json |-> doc]
JsonLoads(text) == text.json

\* GistManager.get_gist_content: [found, doc]; found = FALSE is Python None
NotFound == [found |-> FALSE, doc |-> <<>>]
get_gist_content(gs, gist_id, filename, outcome) ==
    LET p == PosOf(gs, gist_id)
    IN  IF outcome = "ok" /\ p # 0 /\ filename \in DOMAIN gs[p].files
        THEN [found |-> TRUE, doc |-> JsonLoads(gs[p].files[filename])]
        ELSE NotFound

\* a PATCH of some files of a gist: the other files are kept
PatchFiles(old, new) ==
    [n \in (DOMAIN old) \cup (DOMAIN new) |->
        IF n \in DOMAIN new THEN new[n] ELSE old[n]]

\* insert g at position p (1..Len+1) of the enumeration
InsertAt(gs, p, g) == SubSeq(gs, 1, p - 1) \o <<g>> \o SubSeq(gs, p, Len(gs))

\* the history document kept in container `id` ( <<>> when absent)
StoredHistory(gs, id) ==
    LET p == PosOf(gs, id)
    IN  IF p # 0 /\ HISTORY_FILE \in DOMAIN gs[p].files
        THEN JsonLoads(gs[p].files[HISTORY_FILE]).articles
        ELSE <<>>

HasSelection(gs, id) ==
    LET p == PosOf(gs, id)
    IN  p # 0 /\ SELECTION_FILE \in DOMAIN gs[p].files

StoredSelection(gs, id) == JsonLoads(gs[PosOf(gs, id)].files[SELECTION_FILE])

\* the history of every container, by id
Histories(gs) == [id \in {gs[i].id : i \in 1..Len(gs)} |-> StoredHistory(gs, id)]

MarkerGists(gs) == {i \in 1..Len(gs) : StartsWith(gs[i].description, description_prefix)}

\* ------------------------------------------------------------- the clock
\* datetime.now().strftime('%Y-%m-%d'): all runs of the model fall on one day
Today == "2025-01-01"

\* ------------------------------------------------------ provider responses
\* ideas a provider response can carry
IdeaTitle(i) == CASE i = 1 -> "T1" [] i = 2 -> "T2" [] i = 3 -> "T3" [] OTHER -> "T4"
Idea(i, c) == [id |-> i, title |-> IdeaTitle(i), category |-> c]
NoIdea == [id |-> 0, title |-> "", category |-> ""]

JsonPayloads == {"J3", "Jnokey", "J2", "J4"}

\* json.loads of a payload token: the decoded document
PayloadDoc(tok) ==
    CASE tok = "J3" -> [haskey |-> TRUE,
                        ideas |-> <<Idea(1, "catA"), Idea(2, "catB"), Idea(3, "catA")>>]
      [] tok = "J2" -> [haskey |-> TRUE, ideas |-> <<Idea(1, "catA"), Idea(2, "catB")>>]
      [] tok = "J4" -> [haskey |-> TRUE,
                        ideas |-> <<Idea(1, "catA"), Idea(2, "catB"), Idea(3, "catA"),
                                    Idea(4, "catB")>>]
      [] OTHER -> [haskey |-> FALSE, ideas |-> <<>>]

\* the code-fence markers of a response: three backquotes, with and without "json"
FENCE_JSON == "[fence-json]"
FENCE == "[fence]"

\* texts the provider may answer the idea prompt with
IdeaResponses ==
    { <<"prose", "ws", FENCE_JSON, "ws", "J3", "ws", FENCE, "ws", "prose">>,
      <<FENCE, "ws", "J3", "ws", FENCE>>,
      <<"prose", "J3">>,
      <<FENCE_JSON, "Jnokey", FENCE>> }

\* answers to the idea prompt that carry two ideas, or four
MiscountedResponses ==
    { <<FENCE_JSON, "ws", "J2", "ws", FENCE>>,
      <<FENCE_JSON, "ws", "J4", "ws", FENCE>> }

\* text.split(open)[1].split(close)[0]
SplitBetween(text, open, close) ==
    LET p == FirstAfter(text, open, 0)
        q == FirstAfter(text, open, p)
        piece == SubSeq(text, p + 1, IF q = 0 THEN Len(text) ELSE q - 1)
        r == FirstAfter(piece, close, 0)
    IN  IF r = 0 THEN piece ELSE SubSeq(piece, 1, r - 1)

Contains(text, tok) == \E i \in 1..Len(text) : text[i] = tok

\* IdeaGenerator.generate_ideas, from the response text on:
\* [err, ideas] with err = "" on success
ParseIdeas(response_text) ==
    LET text == IF Contains(response_text, FENCE_JSON)
                THEN Strip(SplitBetween(response_text, FENCE_JSON, FENCE))
                ELSE IF Contains(response_text, FENCE)
                THEN Strip(SplitBetween(response_text, FENCE, FENCE))
                ELSE response_text
    IN  IF ~(Len(Strip(text)) = 1 /\ Strip(text)[1] \in JsonPayloads)
        THEN [err |-> "JSONDecodeError", ideas |-> <<>>]
        ELSE IF ~PayloadDoc(Strip(text)[1]).haskey
        THEN [err |-> "KeyError", ideas |-> <<>>]
        ELSE [err |-> "", ideas |-> PayloadDoc(Strip(text)[1]).ideas]

\* HistorySection when the prompt names every entry of the history
HistorySection_all(past) == past

\* the past_articles part of the idea prompt: the entries named as excluded
HistorySection(past) == LastN(past, 50)

\* ------------------------------------------------------- article responses
\* element names and their opening and closing tags
TagTable == { <<"article", "<article>", "</article>">>,
              <<"title", "<title>", "</title>">>,
              <<"body", "<body>", "</body>">>,
              <<"hashtags", "<hashtags>", "</hashtags>">>,
              <<"tag", "<tag>", "</tag>">>,
              <<"summary", "<summary>", "</summary>">>,
              <<"estimated_read_time", "<estimated_read_time>", "</estimated_read_time>">>,
              <<"b", "<b>", "</b>">> }
IsOpen(t) == \E e \in TagTable : e[2] = t
IsClose(t) == \E e \in TagTable : e[3] = t
NameOf(t) == (CHOOSE e \in TagTable : e[2] = t \/ e[3] = t)[1]

\* "ws" is whitespace, "amp" a character that is not legal in XML text
\* (a bare & or <), every other token is plain text

\* xml.etree.ElementTree.fromstring, the parser's state after each token:
\* the open elements, whether the root was opened (1) and closed (2), and
\* whether the document is still well-formed
XmlStep(st, t) ==
    IF ~st.ok THEN st
    ELSE IF IsOpen(t)
    THEN IF st.root = 2 THEN [st EXCEPT !.ok = FALSE]
         ELSE [st EXCEPT !.stack = Append(st.stack, NameOf(t)), !.root = 1]
    ELSE IF IsClose(t)
    THEN IF st.stack # <<>> /\ Last(st.stack) = NameOf(t)
         THEN [st EXCEPT !.stack = Front(st.stack),
                         !.root = IF Len(st.stack) = 1 THEN 2 ELSE 1]
         ELSE [st EXCEPT !.ok = FALSE]
    ELSE IF t = "ws" THEN st
    ELSE IF t = "amp" \/ st.stack = <<>> THEN [st EXCEPT !.ok = FALSE]
    ELSE st

XmlScan(toks) ==
    LET f[i \in 0..Len(toks)] ==
            IF i = 0 THEN [stack |-> <<>>, root |-> 0, ok |-> TRUE]
            ELSE XmlStep(f[i - 1], toks[i])
    IN  f

WellFormed(toks) ==
    LET st == XmlScan(toks)[Len(toks)] IN st.ok /\ st.root = 2

\* Element.text of the element opened at position i: the text up to the next tag
ElementText(toks, i) ==
    LET tags == {j \in (i + 1)..Len(toks) : IsOpen(toks[j]) \/ IsClose(toks[j])}
        stop == IF tags = {} THEN Len(toks) + 1
                ELSE CHOOSE j \in tags : \A k \in tags : j <= k
    IN  SubSeq(toks, i + 1, stop - 1)

\* root.find(name): position of the first child of the root named so, 0 if none
FindChild(toks, name) ==
    LET scan == XmlScan(toks)
        hits == {i \in 1..Len(toks) :
                    /\ IsOpen(toks[i]) /\ NameOf(toks[i]) = name
                    /\ Len(scan[i - 1].stack) = 1}
    IN  IF hits = {} THEN 0 ELSE CHOOSE i \in hits : \A j \in hits : i <= j

\* FieldText when a field that is missing is always the empty string
FieldText_nodefault(toks, name, dflt) ==
    LET i == FindChild(toks, name)
    IN  IF i # 0 /\ ElementText(toks, i) # <<>>
        THEN Strip(ElementText(toks, i)) ELSE <<>>

\* root.find(name).text.strip() if the element is there and has text, else dflt
FieldText(toks, name, dflt) ==
    LET i == FindChild(toks, name)
    IN  IF i # 0 /\ ElementText(toks, i) # <<>>
        THEN Strip(ElementText(toks, i)) ELSE dflt

\* [tag.text.strip() for tag in root.findall(".//hashtags/tag") if tag.text]
RECURSIVE TagTexts(_, _, _)
TagTexts(toks, scan, i) ==
    IF i > Len(toks) THEN <<>>
    ELSE IF /\ toks[i] = "<tag>"
            /\ Len(scan[i - 1].stack) >= 2
            /\ Last(scan[i - 1].stack) = "hashtags"
            /\ ElementText(toks, i) # <<>>
    THEN <<Strip(ElementText(toks, i))>> \o TagTexts(toks, scan, i + 1)
    ELSE TagTexts(toks, scan, i + 1)

\* re.sub(r'<body>.*?</body>', '<body>PLACEHOLDER</body>', text, flags=re.DOTALL)
RECURSIVE SubBody(_)
SubBody(toks) ==
    LET p == FirstAfter(toks, "<body>", 0)
        q == IF p = 0 THEN 0 ELSE FirstAfter(toks, "</body>", p)
    IN  IF q = 0 THEN toks
        ELSE SubSeq(toks, 1, p - 1) \o <<"<body>", "PLACEHOLDER", "</body>">>
             \o SubBody(SubSeq(toks, q + 1, Len(toks)))

NoArticle == [title |-> <<>>, body |-> <<>>, hashtags |-> <<>>, summary |-> <<>>,
              estimated_read_time |-> <<>>]

\* ArticleXml when the text around the article markers is not cut off
ArticleXml_whole(response_text) == response_text

\* the <article>...</article> part of the response, or all of it
ArticleXml(response_text) ==
    IF Contains(response_text, "<article>") /\ Contains(response_text, "</article>")
    THEN SubSeq(response_text, FirstAfter(response_text, "<article>", 0),
                FirstAfter(response_text, "</article>", 0))
    ELSE response_text

\* ParseArticle when a response without body yields an article with an empty one
ParseArticle_nobody(response_text) ==
    LET xml_text == ArticleXml(response_text)
        p == FirstAfter(xml_text, "<body>", 0)
        q == IF p = 0 THEN 0 ELSE FirstAfter(xml_text, "</body>", p)
        xml_without_body == SubBody(xml_text)
    IN  IF ~WellFormed(xml_without_body)
        THEN [err |-> "ParseError", article |-> NoArticle]
        ELSE [err |-> "",
              article |->
                [title |-> FieldText(xml_without_body, "title", <<>>),
                 body |-> IF q = 0 THEN <<>> ELSE Strip(SubSeq(xml_text, p + 1, q - 1)),
                 hashtags |-> TagTexts(xml_without_body, XmlScan(xml_without_body), 1),
                 summary |-> FieldText(xml_without_body, "summary", <<>>),
                 estimated_read_time |->
                     FieldText(xml_without_body, "estimated_read_time", <<"5min">>)]]

\* ArticleGenerator.generate_article, lines 166-206: [err, article]
ParseArticle(response_text) ==
    LET xml_text == ArticleXml(response_text)
        p == FirstAfter(xml_text, "<body>", 0)
        q == IF p = 0 THEN 0 ELSE FirstAfter(xml_text, "</body>", p)
        xml_without_body == SubBody(xml_text)
    IN  IF q = 0 THEN [err |-> "ValueError", article |-> NoArticle]
        ELSE IF ~WellFormed(xml_without_body)
        THEN [err |-> "ParseError", article |-> NoArticle]
        ELSE [err |-> "",
              article |->
                [title |-> FieldText(xml_without_body, "title", <<>>),
                 body |-> Strip(SubSeq(xml_text, p + 1, q - 1)),
                 hashtags |-> TagTexts(xml_without_body, XmlScan(xml_without_body), 1),
                 summary |-> FieldText(xml_without_body, "summary", <<>>),
                 estimated_read_time |->
                     FieldText(xml_without_body, "estimated_read_time", <<"5min">>)]]

\* texts the provider may answer the article prompt with
ArticleResponses ==
    { <<"prose", "ws", "<article>", "ws", "<title>", "A1", "</title>", "ws",
        "<body>", "ws", "para", "amp", "<b>", "ws", "para", "ws", "</body>", "ws",
        "<hashtags>", "<tag>", "h1", "</tag>", "<tag>", "h2", "</tag>", "</hashtags>",
        "<summary>", "sum", "</summary>",
        "<estimated_read_time>", "7min", "</estimated_read_time>",
        "</article>", "ws", "prose">>,
      <<"<article>", "<title>", "A1", "</title>", "</article>">>,
      <<"<article>", "<title>", "A1", "amp", "</title>", "<body>", "para", "</body>",
        "</article>">> }

\* ArticleGenerator.save_article: the markdown text
RECURSIVE JoinTags(_)
JoinTags(tags) ==
    IF tags = <<>> THEN <<>>
    ELSE <<"#">> \o Head(tags) \o (IF Len(tags) > 1 THEN <<" ">> ELSE <<>>)
         \o JoinTags(Tail(tags))

Markdown(article) ==
    <<"# ">> \o article.title \o <<"nl", "nl">> \o article.body
    \o <<"nl", "nl", "---", "nl", "nl", "**hashtags**: ">> \o JoinTags(article.hashtags)
    \o <<"nl", "nl", "**read time**: ">> \o article.estimated_read_time
    \o <<"nl", "nl", "**summary**: ">> \o article.summary \o <<"nl">>

\* -------------------------------------------------------------- selection
\* JSON literals the selection field can hold
SelectionLiterals == {"null", "-1", "0", "1", "2", "3", "4"}

\* int(selection) of a JSON number
PyInt(lit) == CASE lit = "-1" -> -1 [] lit = "0" -> 0
                [] lit = "1" -> 1 [] lit = "2" -> 2 [] lit = "3" -> 3 [] OTHER -> 4

\* list[i] of Python: negative indices count from the end
PyIndex(list, i) ==
    IF i >= 0 /\ i < Len(list) THEN [err |-> "", val |-> list[i + 1]]
    ELSE IF i < 0 /\ -i <= Len(list) THEN [err |-> "", val |-> list[Len(list) + i + 1]]
    ELSE [err |-> "IndexError", val |-> NoIdea]

\* SelectIdea without the shift from the 1-based selection to the 0-based index
SelectIdea_unshifted(data) ==
    IF data.selection = "null" THEN [err |-> "TypeError", val |-> NoIdea]
    ELSE PyIndex(data.ideas, PyInt(data.selection))

\* main, lines 269-270: ideas[int(selection) - 1]; int(None) is a TypeError
SelectIdea(data) ==
    IF data.selection = "null" THEN [err |-> "TypeError", val |-> NoIdea]
    ELSE PyIndex(data.ideas, PyInt(data.selection) - 1)

\* ------------------------------------------------------------ notifications
FirstStatuses == {"200", "429", "500", "timeout"}
RetryStatuses == {"200", "429", "500"}

\* send_message when a retry that fails is followed by one more wait and retry
send_message_again(hasWebhook, first, retry) ==
    IF ~hasWebhook
    THEN [attempts |-> 0, wait |-> 0, rate_wait |-> 0, statuses |-> <<>>, delivered |-> FALSE]
    ELSE IF first = "200"
    THEN [attempts |-> 1, wait |-> 2, rate_wait |-> 0, statuses |-> <<first>>,
          delivered |-> TRUE]
    ELSE IF first = "429"
    THEN IF retry = "200"
         THEN [attempts |-> 2, wait |-> 12, rate_wait |-> 10,
               statuses |-> <<first, retry>>, delivered |-> TRUE]
         ELSE [attempts |-> 3, wait |-> 20, rate_wait |-> 20,
               statuses |-> <<first, retry>>, delivered |-> FALSE]
    ELSE [attempts |-> 1, wait |-> 0, rate_wait |-> 0, statuses |-> <<first>>,
          delivered |-> FALSE]

\* DiscordNotifier.send_message, what one call does: the requests made, the
\* time slept in all, the time slept for the rate limit, the statuses
\* received ("timeout" for a request that raised), whether a request succeeded
send_message(hasWebhook, first, retry) ==
    IF ~hasWebhook
    THEN [attempts |-> 0, wait |-> 0, rate_wait |-> 0, statuses |-> <<>>, delivered |-> FALSE]
    ELSE IF first = "200"
    THEN [attempts |-> 1, wait |-> 2, rate_wait |-> 0, statuses |-> <<first>>,
          delivered |-> TRUE]
    ELSE IF first = "429"
    THEN [attempts |-> 2, wait |-> 10 + (IF retry = "200" THEN 2 ELSE 0), rate_wait |-> 10,
          statuses |-> <<first, retry>>, delivered |-> retry = "200"]
    ELSE [attempts |-> 1, wait |-> 0, rate_wait |-> 0, statuses |-> <<first>>,
          delivered |-> FALSE]

\* the inputs of one delivery: is the webhook configured, the status of the
\* first request, the status of the retry (read only after a 429)
Deliveries ==
    {d \in [webhook : BOOLEAN, first : FirstStatuses, retry : RetryStatuses] :
        /\ ~d.webhook => d.first = "200"
        /\ d.first # "429" => d.retry = "200"}

\* ------------------------------------------------------------------- state
VARIABLES
    gists,          \* the gists of the account, in the store's enumeration order
    nextId,         \* number of gists created so far
    hist0,          \* the history of each container when the current run started
    \* Cron Job 1 (generate_ideas.main)
    ipc,            \* stage of the running or last IdeaProposalJob
    i_gist_id,      \* main: gist_id
    past_articles,  \* main: past_articles
    i_prompt,       \* history entries embedded in the prompt sent
    i_response,     \* generate_ideas: response_text
    ideas,          \* main: ideas
    ilog,           \* what this run has done so far
    inote,          \* notifications this run has sent
    \* Cron Job 2 (generate_article.main)
    apc,            \* stage of the running or last ArticleGenerationJob
    a_gist_id,      \* main: gist_id
    selection_data, \* main: selection_data
    selected_idea,  \* main: selected_idea
    a_prompt,       \* the idea whose fields the prompt sent carries
    attempt,        \* generate_article: attempt
    waited,         \* generate_article: total time slept between attempts
    a_response,     \* generate_article: response_text
    a_error,        \* the exception main caught
    article,        \* main: article
    articles,       \* add_to_history: articles
    written,        \* local files this run has written
    alog,           \* what this run has done so far
    anote           \* notifications this run has sent

ivars == <<ipc, i_gist_id, past_articles, i_prompt, i_response, ideas, ilog, inote>>
avars == <<apc, a_gist_id, selection_data, selected_idea, a_prompt, attempt, waited,
           a_response, a_error, article, articles, written, alog, anote>>
svars == <<gists, nextId, hist0>>
vars == <<gists, nextId, hist0, ipc, i_gist_id, past_articles, i_prompt, i_response,
          ideas, ilog, inote, apc, a_gist_id, selection_data, selected_idea, a_prompt,
          attempt, waited, a_response, a_error, article, articles, written, alog, anote>>

IdeaRunning == ipc \in {"FindingContainer", "LoadingHistory", "Generating",
                        "Parsing", "Persisting", "Notifying"}

ArticleRunning == apc \in {"FindingContainer", "LoadingSelection", "Validating",
                           "Reminding", "Generating", "Parsing", "Reporting",
                           "Persisting", "AppendingHistory", "WritingHistory",
                           "Delivering"}

\* -------------------------------------------------- Cron Job 1: the stages
\* main, lines 171-178: the secrets are read from the environment
IdeaStart(haveSecrets) ==
    /\ ipc = "idle"
    /\ apc = "idle"
    /\ ipc' = IF haveSecrets THEN "FindingContainer" ELSE "ConfigError"
    /\ i_gist_id' = None
    /\ past_articles' = <<>>
    /\ i_prompt' = <<>>
    /\ i_response' = <<>>
    /\ ideas' = <<>>
    /\ ilog' = {}
    /\ inote' = <<>>
    /\ hist0' = Histories(gists)
    /\ UNCHANGED <<gists, nextId, avars>>

\* main, line 181
IdeaFindContainer(outcome) ==
    /\ ipc = "FindingContainer"
    /\ ilog' = ilog \cup {"store_list"} \cup ReadFailure(outcome)
    /\ IF \/ outcome = "exception"
          \/ get_gist_by_description(gists, description_prefix, outcome) = "AttributeError"
       THEN /\ ipc' = "Raised"
            /\ UNCHANGED i_gist_id
       ELSE /\ i_gist_id' = get_gist_by_description(gists, description_prefix, outcome)
            /\ ipc' = "LoadingHistory"
    /\ UNCHANGED <<past_articles, i_prompt, i_response, ideas, inote>>
    /\ UNCHANGED <<svars, avars>>

\* GistManager.load_history
load_history(gs, gist_id, outcome) ==
    IF gist_id = None THEN <<>>
    ELSE LET data == get_gist_content(gs, gist_id, HISTORY_FILE, outcome)
         IN  IF data.found /\ data.doc # <<>> THEN data.doc.articles ELSE <<>>

\* IdeaLoadHistory when a missing container is a failure
IdeaLoadHistory_strict(outcome) ==
    /\ ipc = "LoadingHistory"
    /\ IF i_gist_id = None
       THEN /\ outcome = "ok"
            /\ ipc' = "Raised"
            /\ UNCHANGED <<past_articles, ilog>>
       ELSE /\ ilog' = ilog \cup {"store_get"} \cup ReadFailure(outcome)
            /\ IF outcome = "exception"
               THEN /\ ipc' = "Raised"
                    /\ UNCHANGED past_articles
               ELSE /\ past_articles' = load_history(gists, i_gist_id, outcome)
                    /\ ipc' = "Generating"
    /\ UNCHANGED <<i_gist_id, i_prompt, i_response, ideas, inote>>
    /\ UNCHANGED <<svars, avars>>

\* main, line 182
IdeaLoadHistory(outcome) ==
    /\ ipc = "LoadingHistory"
    /\ IF i_gist_id = None
       THEN /\ outcome = "ok"
            /\ past_articles' = <<>>
            /\ ipc' = "Generating"
            /\ UNCHANGED ilog
       ELSE /\ ilog' = ilog \cup {"store_get"} \cup ReadFailure(outcome)
            /\ IF outcome = "exception"
               THEN /\ ipc' = "Raised"
                    /\ UNCHANGED past_articles
               ELSE /\ past_articles' = load_history(gists, i_gist_id, outcome)
                    /\ ipc' = "Generating"
    /\ UNCHANGED <<i_gist_id, i_prompt, i_response, ideas, inote>>
    /\ UNCHANGED <<svars, avars>>

ProviderErrors == {"Transient", "RateLimited", "Fatal"}

\* generate_ideas, lines 93-155: one provider call, no retry
IdeaGenerate(outcome, response) ==
    /\ ipc = "Generating"
    /\ ilog' = ilog \cup {"provider"}
                  \cup (IF outcome = "ok" THEN {"response"} ELSE {"provider_error"})
    /\ i_prompt' = HistorySection(past_articles)
    /\ IF outcome = "ok"
       THEN /\ i_response' = response
            /\ ipc' = "Parsing"
       ELSE /\ ipc' = "Raised"
            /\ UNCHANGED i_response
    /\ UNCHANGED <<i_gist_id, past_articles, ideas, inote>>
    /\ UNCHANGED <<svars, avars>>

\* IdeaParse when a response that does not parse is asked for again
IdeaParse_retry ==
    /\ ipc = "Parsing"
    /\ LET r == ParseIdeas(i_response)
       IN  IF r.err = ""
           THEN /\ ideas' = r.ideas
                /\ ipc' = "Persisting"
                /\ UNCHANGED ilog
           ELSE /\ ipc' = "Generating"
                /\ ilog' = ilog \cup {"parse_error"}
                /\ UNCHANGED ideas
    /\ i_response' = <<>>
    /\ UNCHANGED <<i_gist_id, past_articles, i_prompt, inote>>
    /\ UNCHANGED <<svars, avars>>

\* generate_ideas, lines 155-162
IdeaParse ==
    /\ ipc = "Parsing"
    /\ LET r == ParseIdeas(i_response)
       IN  IF r.err = ""
           THEN /\ ideas' = r.ideas
                /\ ipc' = "Persisting"
                /\ UNCHANGED ilog
           ELSE /\ ipc' = "Raised"
                /\ ilog' = ilog \cup {"parse_error"}
                /\ UNCHANGED ideas
    /\ i_response' = <<>>
    /\ UNCHANGED <<i_gist_id, past_articles, i_prompt, inote>>
    /\ UNCHANGED <<svars, avars>>

\* IdeaFiles when the history file is written afresh instead of carried forward
IdeaFiles_fresh(newIdeas, past) ==
    [n \in {SELECTION_FILE, HISTORY_FILE} |->
        IF n = SELECTION_FILE
        THEN JsonDumps([date |-> Today, ideas |-> newIdeas, selection |-> "null"])
        ELSE JsonDumps([articles |-> <<>>])]

\* the two files main writes, lines 193-208
IdeaFiles(newIdeas, past) ==
    [n \in {SELECTION_FILE, HISTORY_FILE} |->
        IF n = SELECTION_FILE
        THEN JsonDumps([date |-> Today, ideas |-> newIdeas, selection |-> "null"])
        ELSE JsonDumps([articles |-> past])]

\* create_or_update_gist when the PATCH leaves a history file the gist has alone
create_or_update_gist_merge(gs, gist_id, files_dict, description, newId, pos) ==
    IF gist_id # None
    THEN [gs EXCEPT ![PosOf(gs, gist_id)] =
             [id |-> gist_id, description |-> description,
              files |-> IF HISTORY_FILE \in DOMAIN gs[PosOf(gs, gist_id)].files
                        THEN PatchFiles(gs[PosOf(gs, gist_id)].files,
                                 [n \in {SELECTION_FILE} |-> files_dict[n]])
                        ELSE PatchFiles(gs[PosOf(gs, gist_id)].files, files_dict)]]
    ELSE InsertAt(gs, pos, [id |-> newId, description |-> description,
                            files |-> files_dict])

\* GistManager.create_or_update_gist with outcome "ok": PATCH of gist_id, or
\* POST of a new gist that the store lists at position pos
create_or_update_gist(gs, gist_id, files_dict, description, newId, pos) ==
    IF gist_id # None
    THEN [gs EXCEPT ![PosOf(gs, gist_id)] =
             [id |-> gist_id, description |-> description,
              files |-> PatchFiles(gs[PosOf(gs, gist_id)].files, files_dict)]]
    ELSE InsertAt(gs, pos, [id |-> newId, description |-> description,
                            files |-> files_dict])

\* IdeaPersist when the run goes on to the notification after a failed write
IdeaPersist_regardless(outcome, pos) ==
    /\ ipc = "Persisting"
    /\ ilog' = ilog \cup {"store_write"} \cup WriteFailure(outcome)
    /\ pos \in 1..(Len(gists) + 1)
    /\ IF outcome = "ok"
       THEN /\ i_gist_id = None => Cardinality(MarkerGists(gists)) < MaxGists
            /\ i_gist_id # None => pos = 1
            /\ gists' = create_or_update_gist(gists, i_gist_id,
                            IdeaFiles(ideas, past_articles),
                            Description(Today), NewId(nextId + 1), pos)
            /\ nextId' = IF i_gist_id = None THEN nextId + 1 ELSE nextId
            /\ ipc' = "Notifying"
       ELSE /\ pos = 1
            /\ ipc' = IF outcome = "exception" THEN "Raised" ELSE "Notifying"
            /\ UNCHANGED <<gists, nextId>>
    /\ UNCHANGED <<i_gist_id, past_articles, i_prompt, i_response, ideas, inote>>
    /\ UNCHANGED <<hist0, avars>>

\* main, lines 193-217
IdeaPersist(outcome, pos) ==
    /\ ipc = "Persisting"
    /\ ilog' = ilog \cup {"store_write"} \cup WriteFailure(outcome)
    /\ pos \in 1..(Len(gists) + 1)
    /\ IF outcome = "ok"
       THEN /\ i_gist_id = None => Cardinality(MarkerGists(gists)) < MaxGists
            /\ i_gist_id # None => pos = 1
            /\ gists' = create_or_update_gist(gists, i_gist_id,
                            IdeaFiles(ideas, past_articles),
                            Description(Today), NewId(nextId + 1), pos)
            /\ nextId' = IF i_gist_id = None THEN nextId + 1 ELSE nextId
            /\ ipc' = "Notifying"
       ELSE /\ pos = 1
            /\ ipc' = IF outcome = "exception" THEN "Raised" ELSE "Failed"
            /\ UNCHANGED <<gists, nextId>>
    /\ UNCHANGED <<i_gist_id, past_articles, i_prompt, i_response, ideas, inote>>
    /\ UNCHANGED <<hist0, avars>>

\* IdeaNotify when a message that is not delivered fails the run
IdeaNotify_strict(hasWebhook, first, retry) ==
    /\ ipc = "Notifying"
    /\ inote' = Append(inote, [kind |-> "ideas"] @@ send_message(hasWebhook, first, retry))
    /\ ilog' = ilog \cup {"notify"}
    /\ ipc' = IF send_message(hasWebhook, first, retry).delivered THEN "Done" ELSE "Failed"
    /\ UNCHANGED <<i_gist_id, past_articles, i_prompt, i_response, ideas>>
    /\ UNCHANGED <<svars, avars>>

\* main, lines 219-274: the ideas message; its outcome is not looked at
IdeaNotify(hasWebhook, first, retry) ==
    /\ ipc = "Notifying"
    /\ inote' = Append(inote, [kind |-> "ideas"] @@ send_message(hasWebhook, first, retry))
    /\ ilog' = ilog \cup {"notify"}
    /\ ipc' = "Done"
    /\ UNCHANGED <<i_gist_id, past_articles, i_prompt, i_response, ideas>>
    /\ UNCHANGED <<svars, avars>>

IdeaTerminal == {"Done", "ConfigError", "Raised", "Failed"}

\* the process of Cron Job 1 ends: nothing of it is kept
IdeaExit ==
    /\ ipc \in IdeaTerminal
    /\ ipc' = "idle"
    /\ i_gist_id' = None
    /\ past_articles' = <<>>
    /\ i_prompt' = <<>>
    /\ i_response' = <<>>
    /\ ideas' = <<>>
    /\ ilog' = {}
    /\ inote' = <<>>
    /\ hist0' = Histories(gists)
    /\ UNCHANGED <<gists, nextId, avars>>

\* -------------------------------------------------- Cron Job 2: the stages
NoSelection == [date |-> "", ideas |-> <<>>, selection |-> "null"]
NothingWritten == [md |-> {}, meta |-> {}, debug |-> {}]

\* ArticleStart when the secrets are looked at after the containers are listed
ArticleStart_late(haveSecrets) ==
    /\ apc = "idle"
    /\ ipc = "idle"
    /\ apc' = IF haveSecrets THEN "FindingContainer" ELSE "ConfigError"
    /\ a_gist_id' = None
    /\ selection_data' = NoSelection
    /\ selected_idea' = NoIdea
    /\ a_prompt' = NoIdea
    /\ attempt' = 0
    /\ waited' = 0
    /\ a_response' = <<>>
    /\ a_error' = ""
    /\ article' = NoArticle
    /\ articles' = <<>>
    /\ written' = NothingWritten
    /\ alog' = IF haveSecrets THEN {} ELSE {"store_list"}
    /\ anote' = <<>>
    /\ hist0' = Histories(gists)
    /\ UNCHANGED <<gists, nextId, ivars>>

\* main, lines 235-242
ArticleStart(haveSecrets) ==
    /\ apc = "idle"
    /\ ipc = "idle"
    /\ apc' = IF haveSecrets THEN "FindingContainer" ELSE "ConfigError"
    /\ a_gist_id' = None
    /\ selection_data' = NoSelection
    /\ selected_idea' = NoIdea
    /\ a_prompt' = NoIdea
    /\ attempt' = 0
    /\ waited' = 0
    /\ a_response' = <<>>
    /\ a_error' = ""
    /\ article' = NoArticle
    /\ articles' = <<>>
    /\ written' = NothingWritten
    /\ alog' = {}
    /\ anote' = <<>>
    /\ hist0' = Histories(gists)
    /\ UNCHANGED <<gists, nextId, ivars>>

\* main, lines 243-247
ArticleFindContainer(outcome) ==
    /\ apc = "FindingContainer"
    /\ alog' = alog \cup {"store_list"} \cup ReadFailure(outcome)
    /\ IF \/ outcome = "exception"
          \/ get_gist_by_description(gists, description_prefix, outcome) = "AttributeError"
       THEN /\ apc' = "Raised"
            /\ UNCHANGED a_gist_id
       ELSE /\ a_gist_id' = get_gist_by_description(gists, description_prefix, outcome)
            /\ apc' = IF a_gist_id' = None THEN "NoContainer" ELSE "LoadingSelection"
    /\ UNCHANGED <<selection_data, selected_idea, a_prompt, attempt, waited, a_response,
                   a_error, article, articles, written, anote>>
    /\ UNCHANGED <<svars, ivars>>

\* ArticleLoadSelection when a record that cannot be read is reported
ArticleLoadSelection_report(outcome) ==
    /\ apc = "LoadingSelection"
    /\ alog' = alog \cup {"store_get"} \cup ReadFailure(outcome)
    /\ IF outcome = "exception"
       THEN /\ apc' = "Raised"
            /\ UNCHANGED <<selection_data, anote>>
       ELSE LET data == get_gist_content(gists, a_gist_id, SELECTION_FILE, outcome)
            IN  IF data.found
                THEN /\ selection_data' = data.doc
                     /\ apc' = "Validating"
                     /\ UNCHANGED anote
                ELSE /\ apc' = "ReadFailed"
                     /\ anote' = Append(anote, [kind |-> "failure"]
                                                @@ send_message(TRUE, "200", "200"))
                     /\ UNCHANGED selection_data
    /\ UNCHANGED <<a_gist_id, selected_idea, a_prompt, attempt, waited, a_response,
                   a_error, article, articles, written>>
    /\ UNCHANGED <<svars, ivars>>

\* main, lines 250-254
ArticleLoadSelection(outcome) ==
    /\ apc = "LoadingSelection"
    /\ alog' = alog \cup {"store_get"} \cup ReadFailure(outcome)
    /\ IF outcome = "exception"
       THEN /\ apc' = "Raised"
            /\ UNCHANGED selection_data
       ELSE LET data == get_gist_content(gists, a_gist_id, SELECTION_FILE, outcome)
            IN  IF data.found
                THEN /\ selection_data' = data.doc
                     /\ apc' = "Validating"
                ELSE /\ apc' = "ReadFailed"
                     /\ UNCHANGED selection_data
    /\ UNCHANGED <<a_gist_id, selected_idea, a_prompt, attempt, waited, a_response,
                   a_error, article, articles, written, anote>>
    /\ UNCHANGED <<svars, ivars>>

\* SelectionUnset when the check for a missing selection is left out
SelectionUnset_never(selection) == FALSE

\* main, line 258: selection is None
SelectionUnset(selection) == selection = "null"

\* ArticleValidate when a record of another day counts as not selected
ArticleValidate_fresh ==
    /\ apc = "Validating"
    /\ IF SelectionUnset(selection_data.selection) \/ selection_data.date # Today
       THEN /\ apc' = "Reminding"
            /\ UNCHANGED selected_idea
       ELSE LET r == SelectIdea(selection_data)
            IN  IF r.err = ""
                THEN /\ selected_idea' = r.val
                     /\ apc' = "Generating"
                ELSE /\ apc' = "Raised"
                     /\ UNCHANGED selected_idea
    /\ UNCHANGED <<a_gist_id, selection_data, a_prompt, attempt, waited, a_response,
                   a_error, article, articles, written, alog, anote>>
    /\ UNCHANGED <<svars, ivars>>

\* main, lines 256-271
ArticleValidate ==
    /\ apc = "Validating"
    /\ IF SelectionUnset(selection_data.selection)
       THEN /\ apc' = "Reminding"
            /\ UNCHANGED selected_idea
       ELSE LET r == SelectIdea(selection_data)
            IN  IF r.err = ""
                THEN /\ selected_idea' = r.val
                     /\ apc' = "Generating"
                ELSE /\ apc' = "Raised"
                     /\ UNCHANGED selected_idea
    /\ UNCHANGED <<a_gist_id, selection_data, a_prompt, attempt, waited, a_response,
                   a_error, article, articles, written, alog, anote>>
    /\ UNCHANGED <<svars, ivars>>

\* main, lines 259-266: the reminder
ArticleRemind(hasWebhook, first, retry) ==
    /\ apc = "Reminding"
    /\ anote' = Append(anote, [kind |-> "reminder"] @@ send_message(hasWebhook, first, retry))
    /\ alog' = alog \cup {"notify"}
    /\ apc' = "AwaitingSelection"
    /\ UNCHANGED <<a_gist_id, selection_data, selected_idea, a_prompt, attempt, waited,
                   a_response, a_error, article, articles, written>>
    /\ UNCHANGED <<svars, ivars>>

\* Pow2 when the delay does not double
Pow2_flat(n) == 1

\* 2 ** attempt, line 151
Pow2(n) == IF n = 0 THEN 1 ELSE IF n = 1 THEN 2 ELSE IF n = 2 THEN 4 ELSE 8

\* generate_article, lines 136-158: one pass of the retry loop
ArticleProviderCall(outcome, response) ==
    /\ apc = "Generating"
    /\ alog' = alog \cup {"provider"} \cup (IF outcome = "ok" THEN {"response"} ELSE {})
    /\ a_prompt' = selected_idea
    /\ IF outcome = "ok"
       THEN /\ a_response' = response
            /\ apc' = "Parsing"
            /\ UNCHANGED <<attempt, waited, a_error>>
       ELSE IF outcome = "no_content"
       THEN /\ a_error' = "IndexError"
            /\ apc' = "Reporting"
            /\ attempt' = 0
            /\ waited' = 0
            /\ UNCHANGED a_response
       ELSE IF attempt < max_retries - 1
       THEN /\ waited' = waited + retry_delay * Pow2(attempt)
            /\ attempt' = attempt + 1
            /\ UNCHANGED <<apc, a_response, a_error>>
       ELSE /\ a_error' = outcome
            /\ apc' = "Reporting"
            /\ UNCHANGED <<attempt, waited, a_response>>
    /\ UNCHANGED <<a_gist_id, selection_data, selected_idea, article, articles,
                   written, anote>>
    /\ UNCHANGED <<svars, ivars>>

\* ArticleParse when a response that does not parse yields an empty article
ArticleParse_lenient ==
    /\ apc = "Parsing"
    /\ LET r == ParseArticle(a_response)
       IN  /\ article' = r.article
           /\ a_error' = r.err
           /\ apc' = "Persisting"
    /\ attempt' = 0
    /\ waited' = 0
    /\ a_response' = <<>>
    /\ UNCHANGED <<a_gist_id, selection_data, selected_idea, a_prompt, articles, anote,
                   written, alog>>
    /\ UNCHANGED <<svars, ivars>>

\* generate_article, lines 158-206
ArticleParse ==
    /\ apc = "Parsing"
    /\ LET r == ParseArticle(a_response)
       IN  IF r.err = ""
           THEN /\ article' = r.article
                /\ apc' = "Persisting"
                /\ UNCHANGED <<a_error, written, alog>>
           ELSE /\ a_error' = r.err
                /\ written' = [written EXCEPT !.debug = {a_response}]
                /\ alog' = alog \cup {"debug_file"}
                /\ apc' = "Reporting"
                /\ UNCHANGED article
    /\ attempt' = 0
    /\ waited' = 0
    /\ a_response' = <<>>
    /\ UNCHANGED <<a_gist_id, selection_data, selected_idea, a_prompt, articles, anote>>
    /\ UNCHANGED <<svars, ivars>>

\* main, lines 278-292: the failure message
ArticleReport(hasWebhook, first, retry) ==
    /\ apc = "Reporting"
    /\ anote' = Append(anote, [kind |-> "failure"] @@ send_message(hasWebhook, first, retry))
    /\ alog' = alog \cup {"notify"}
    /\ apc' = "Failed"
    /\ UNCHANGED <<a_gist_id, selection_data, selected_idea, a_prompt, attempt, waited,
                   a_response, a_error, article, articles, written>>
    /\ UNCHANGED <<svars, ivars>>

\* json.dump of a string when a backslash is written as it is
RECURSIVE json_dump_str_raw(_)
json_dump_str_raw(str) ==
    IF str = <<>> THEN <<>>
    ELSE (IF Head(str) = "quote" THEN <<"bs", "quote">>
          ELSE IF Head(str) = "nl" THEN <<"bs", "n">>
          ELSE <<Head(str)>>) \o json_dump_str_raw(Tail(str))

\* json.dump of a string, between its quotes: a double quote ("quote"), a
\* backslash ("bs") and a newline ("nl") are written as escape sequences
RECURSIVE json_dump_str(_)
json_dump_str(str) ==
    IF str = <<>> THEN <<>>
    ELSE (IF Head(str) = "quote" THEN <<"bs", "quote">>
          ELSE IF Head(str) = "bs" THEN <<"bs", "bs">>
          ELSE IF Head(str) = "nl" THEN <<"bs", "n">>
          ELSE <<Head(str)>>) \o json_dump_str(Tail(str))

\* json.load of the text of a string: the escape sequences are read back
RECURSIVE json_load_str(_)
json_load_str(text) ==
    IF text = <<>> THEN <<>>
    ELSE IF Head(text) = "bs" /\ Len(text) >= 2
    THEN <<IF text[2] = "n" THEN "nl" ELSE text[2]>> \o json_load_str(SubSeq(text, 3, Len(text)))
    ELSE <<Head(text)>> \o json_load_str(Tail(text))

\* json.dump(article, f, ensure_ascii=False, indent=2): the sidecar text
json_dump(art) ==
    JsonDumps([title |-> json_dump_str(art.title),
               body |-> json_dump_str(art.body),
               hashtags |-> [i \in 1..Len(art.hashtags) |-> json_dump_str(art.hashtags[i])],
               summary |-> json_dump_str(art.summary),
               estimated_read_time |-> json_dump_str(art.estimated_read_time)])

\* json.load of a sidecar
json_load(text) ==
    LET doc == JsonLoads(text)
    IN  [title |-> json_load_str(doc.title),
         body |-> json_load_str(doc.body),
         hashtags |-> [i \in 1..Len(doc.hashtags) |-> json_load_str(doc.hashtags[i])],
         summary |-> json_load_str(doc.summary),
         estimated_read_time |-> json_load_str(doc.estimated_read_time)]

SaveOutcomes == {"ok", "md_fails", "meta_fails"}

\* ArticleGenerator.save_article: the files after the call
save_article(files, art, outcome) ==
    IF outcome = "md_fails" THEN files
    ELSE IF outcome = "meta_fails" THEN [files EXCEPT !.md = {Markdown(art)}]
    ELSE [files EXCEPT !.md = {Markdown(art)}, !.meta = {json_dump(art)}]

\* ArticlePersist when a failure of save_article is swallowed
ArticlePersist_swallow(outcome) ==
    /\ apc = "Persisting"
    /\ written' = save_article(written, article, outcome)
    /\ alog' = alog \cup (IF outcome = "md_fails" THEN {}
                          ELSE IF outcome = "meta_fails" THEN {"md_file"}
                          ELSE {"md_file", "meta_file"})
    /\ apc' = "AppendingHistory"
    /\ UNCHANGED <<a_gist_id, selection_data, selected_idea, a_prompt, attempt, waited,
                   a_response, a_error, article, articles, anote>>
    /\ UNCHANGED <<svars, ivars>>

\* main, lines 298-301
ArticlePersist(outcome) ==
    /\ apc = "Persisting"
    /\ written' = save_article(written, article, outcome)
    /\ alog' = alog \cup (IF outcome = "md_fails" THEN {}
                          ELSE IF outcome = "meta_fails" THEN {"md_file"}
                          ELSE {"md_file", "meta_file"})
    /\ apc' = IF outcome = "ok" THEN "AppendingHistory" ELSE "Raised"
    /\ UNCHANGED <<a_gist_id, selection_data, selected_idea, a_prompt, attempt, waited,
                   a_response, a_error, article, articles, anote>>
    /\ UNCHANGED <<svars, ivars>>

HistoryEntry(title, category) ==
    [date |-> Today, title |-> title, category |-> category]

\* add_to_history, lines 55-62: read the list and append the new entry
ArticleAppendRead(outcome) ==
    /\ apc = "AppendingHistory"
    /\ alog' = alog \cup {"history_read"} \cup ReadFailure(outcome)
    /\ IF outcome = "exception"
       THEN /\ apc' = "Raised"
            /\ UNCHANGED articles
       ELSE LET existing == get_gist_content(gists, a_gist_id, HISTORY_FILE, outcome)
            IN  /\ articles' = Append(IF existing.found THEN existing.doc.articles ELSE <<>>,
                                      HistoryEntry(article.title,
                                                   selected_idea.category))
                /\ apc' = "WritingHistory"
    /\ UNCHANGED <<a_gist_id, selection_data, selected_idea, a_prompt, attempt, waited,
                   a_response, a_error, article, written, anote>>
    /\ UNCHANGED <<svars, ivars>>

\* update_file_in_gist when the PATCH replaces the files of the gist
update_file_in_gist_replace(gs, gist_id, filename, content) ==
    [gs EXCEPT ![PosOf(gs, gist_id)].files = [n \in {filename} |-> content]]

\* GistManager.update_file_in_gist with outcome "ok": PATCH of one file
update_file_in_gist(gs, gist_id, filename, content) ==
    [gs EXCEPT ![PosOf(gs, gist_id)].files =
        PatchFiles(@, [n \in {filename} |-> content])]

\* ArticleAppendWrite when the history write also marks the selection as used
ArticleAppendWrite_consume(outcome) ==
    /\ apc = "WritingHistory"
    /\ alog' = alog \cup {"history_write"} \cup WriteFailure(outcome)
    /\ outcome = "ok" => Len(articles) <= MaxHist
    /\ IF outcome = "ok"
       THEN gists' = update_file_in_gist(
                        update_file_in_gist(gists, a_gist_id, HISTORY_FILE,
                                            JsonDumps([articles |-> articles])),
                        a_gist_id, SELECTION_FILE,
                        JsonDumps([selection_data EXCEPT !.selection = "null"]))
       ELSE UNCHANGED gists
    /\ apc' = IF outcome = "exception" THEN "Raised" ELSE "Delivering"
    /\ UNCHANGED <<nextId, hist0>>
    /\ UNCHANGED <<a_gist_id, selection_data, selected_idea, a_prompt, attempt, waited,
                   a_response, a_error, article, articles, written, anote>>
    /\ UNCHANGED ivars

\* add_to_history, lines 64-71, and main, line 305
ArticleAppendWrite(outcome) ==
    /\ apc = "WritingHistory"
    /\ alog' = alog \cup {"history_write"} \cup WriteFailure(outcome)
    /\ outcome = "ok" => Len(articles) <= MaxHist
    /\ IF outcome = "ok"
       THEN gists' = update_file_in_gist(gists, a_gist_id, HISTORY_FILE,
                                         JsonDumps([articles |-> articles]))
       ELSE UNCHANGED gists
    /\ apc' = IF outcome = "exception" THEN "Raised" ELSE "Delivering"
    /\ UNCHANGED <<nextId, hist0>>
    /\ UNCHANGED <<a_gist_id, selection_data, selected_idea, a_prompt, attempt, waited,
                   a_response, a_error, article, articles, written, anote>>
    /\ UNCHANGED ivars

\* DiscordNotifier.send_article_file
send_article_file(hasWebhook, fileThere, first, retry) ==
    IF ~hasWebhook
    THEN [attempts |-> 0, wait |-> 0, rate_wait |-> 0, statuses |-> <<>>, delivered |-> FALSE]
    ELSE IF ~fileThere
    THEN [attempts |-> 0, wait |-> 2, rate_wait |-> 0, statuses |-> <<>>, delivered |-> FALSE]
    ELSE IF first = "200"
    THEN [attempts |-> 1, wait |-> 2, rate_wait |-> 0, statuses |-> <<first>>,
          delivered |-> TRUE]
    ELSE IF first = "429"
    THEN [attempts |-> 2, wait |-> 12, rate_wait |-> 10, statuses |-> <<first, retry>>,
          delivered |-> retry = "200"]
    ELSE [attempts |-> 1, wait |-> 2, rate_wait |-> 0, statuses |-> <<first>>,
          delivered |-> FALSE]

\* ArticleDeliver when a file that is not delivered fails the run
ArticleDeliver_strict(hasWebhook, first, retry) ==
    /\ apc = "Delivering"
    /\ anote' = Append(anote, [kind |-> "file"]
                       @@ send_article_file(hasWebhook, written.md # {}, first, retry))
    /\ alog' = alog \cup {"deliver"}
    /\ apc' = IF send_article_file(hasWebhook, written.md # {}, first, retry).delivered
              THEN "Done" ELSE "Failed"
    /\ UNCHANGED <<a_gist_id, selection_data, selected_idea, a_prompt, attempt, waited,
                   a_response, a_error, article, articles, written>>
    /\ UNCHANGED <<svars, ivars>>

\* main, lines 307-315
ArticleDeliver(hasWebhook, first, retry) ==
    /\ apc = "Delivering"
    /\ anote' = Append(anote, [kind |-> "file"]
                       @@ send_article_file(hasWebhook, written.md # {}, first, retry))
    /\ alog' = alog \cup {"deliver"}
    /\ apc' = "Done"
    /\ UNCHANGED <<a_gist_id, selection_data, selected_idea, a_prompt, attempt, waited,
                   a_response, a_error, article, articles, written>>
    /\ UNCHANGED <<svars, ivars>>

ArticleTerminal == {"Done", "ConfigError", "Raised", "Failed", "NoContainer",
                    "ReadFailed", "AwaitingSelection"}

\* the process of Cron Job 2 ends: nothing of it is kept but the files
ArticleExit ==
    /\ apc \in ArticleTerminal
    /\ apc' = "idle"
    /\ a_gist_id' = None
    /\ selection_data' = NoSelection
    /\ selected_idea' = NoIdea
    /\ a_prompt' = NoIdea
    /\ attempt' = 0
    /\ waited' = 0
    /\ a_response' = <<>>
    /\ a_error' = ""
    /\ article' = NoArticle
    /\ articles' = <<>>
    /\ written' = NothingWritten
    /\ alog' = {}
    /\ anote' = <<>>
    /\ hist0' = Histories(gists)
    /\ UNCHANGED <<gists, nextId, ivars>>

\* ------------------------------------------------------- the environment
\* the reader edits the selection file of a container by hand, between runs
HumanSelect(i, lit) ==
    /\ i \in MarkerGists(gists)
    /\ SELECTION_FILE \in DOMAIN gists[i].files
    /\ lit # "null"
    /\ ipc = "idle" /\ apc = "idle"
    /\ gists' = [gists EXCEPT ![i].files[SELECTION_FILE] =
                    JsonDumps([JsonLoads(@) EXCEPT !.selection = lit])]
    /\ UNCHANGED <<nextId, hist0, ivars, avars>>

Init ==
    /\ gists = <<>>
    /\ hist0 = Histories(<<>>)
    /\ nextId = 0
    /\ ipc = "idle"
    /\ i_gist_id = None
    /\ past_articles = <<>>
    /\ i_prompt = <<>>
    /\ i_response = <<>>
    /\ ideas = <<>>
    /\ ilog = {}
    /\ inote = <<>>
    /\ apc = "idle"
    /\ a_gist_id = None
    /\ selection_data = NoSelection
    /\ selected_idea = NoIdea
    /\ a_prompt = NoIdea
    /\ attempt = 0
    /\ waited = 0
    /\ a_response = <<>>
    /\ a_error = ""
    /\ article = NoArticle
    /\ articles = <<>>
    /\ written = NothingWritten
    /\ alog = {}
    /\ anote = <<>>

IdeaJob ==
    \/ \E b \in BOOLEAN : IdeaStart(b)
    \/ \E o \in StoreOutcomes : IdeaFindContainer(o)
    \/ \E o \in StoreOutcomes : IdeaLoadHistory(o)
    \/ \E r \in IdeaResponses : IdeaGenerate("ok", r)
    \/ \E o \in ProviderErrors : IdeaGenerate(o, <<>>)
    \/ IdeaParse
    \/ \E o \in StoreOutcomes, p \in 1..MaxGists : IdeaPersist(o, p)
    \/ \E d \in Deliveries : IdeaNotify(d.webhook, d.first, d.retry)
    \/ IdeaExit

ArticleJob ==
    \/ \E b \in BOOLEAN : ArticleStart(b)
    \/ \E o \in StoreOutcomes : ArticleFindContainer(o)
    \/ \E o \in StoreOutcomes : ArticleLoadSelection(o)
    \/ ArticleValidate
    \/ \E d \in Deliveries : ArticleRemind(d.webhook, d.first, d.retry)
    \/ \E r \in ArticleResponses : ArticleProviderCall("ok", r)
    \/ \E o \in {"no_content"} \cup ProviderErrors : ArticleProviderCall(o, <<>>)
    \/ ArticleParse
    \/ \E d \in Deliveries : ArticleReport(d.webhook, d.first, d.retry)
    \/ \E o \in SaveOutcomes : ArticlePersist(o)
    \/ \E o \in StoreOutcomes : ArticleAppendRead(o)
    \/ \E o \in StoreOutcomes : ArticleAppendWrite(o)
    \/ \E d \in Deliveries : ArticleDeliver(d.webhook, d.first, d.retry)
    \/ ArticleExit

Environment ==
    \E i \in 1..MaxGists, lit \in SelectionLiterals : HumanSelect(i, lit)

Next == IdeaJob \/ ArticleJob \/ Environment

Spec == Init /\ [][Next]_vars

\* the variables of Cron Job 1 between runs
IdeaAtRest ==
    /\ ipc = "idle"
    /\ i_gist_id = None
    /\ past_articles = <<>>
    /\ i_prompt = <<>>
    /\ i_response = <<>>
    /\ ideas = <<>>
    /\ ilog = {}
    /\ inote = <<>>

\* the variables of Cron Job 2 between runs
ArticleAtRest ==
    /\ apc = "idle"
    /\ a_gist_id = None
    /\ selection_data = NoSelection
    /\ selected_idea = NoIdea
    /\ a_prompt = NoIdea
    /\ attempt = 0
    /\ waited = 0
    /\ a_response = <<>>
    /\ a_error = ""
    /\ article = NoArticle
    /\ articles = <<>>
    /\ written = NothingWritten
    /\ alog = {}
    /\ anote = <<>>

AtRest == IdeaAtRest /\ ArticleAtRest

\* the k-th entry of a long history, as add_to_history has written it
OldEntry(k) == [date |-> Today, title |-> <<ToString(k)>>, category |-> "catA"]

\* lengths of the history the container holds when SpecPrompt starts
PastLens == {0, 1, 49, 50, 51, MaxPast}

\* the container as an earlier run of Cron Job 1 left it, with n history entries
ContainerWith(n, selection) ==
    [id |-> NewId(1), description |-> Description(Today),
     files |-> [f \in {SELECTION_FILE, HISTORY_FILE} |->
                  IF f = SELECTION_FILE
                  THEN JsonDumps([date |-> Today, ideas |-> PayloadDoc("J3").ideas,
                                  selection |-> selection])
                  ELSE JsonDumps([articles |-> [k \in 1..n |-> OldEntry(k)]])]]

\* Cron Job 1 on a container whose history is longer than the prompt takes
InitPrompt ==
    /\ gists \in {<<ContainerWith(n, "null")>> : n \in PastLens}
    /\ hist0 = Histories(gists)
    /\ nextId = 1
    /\ AtRest

SpecPrompt == InitPrompt /\ [][IdeaJob]_vars

\* a gist of the account, listed at position k: the container, a gist of
\* another use, one whose description holds the marker but not at its start,
\* one without description
GistKinds == {"container", "foreign", "nearmiss", "undescribed"}
ListedGist(kind, k) ==
    IF kind = "container" THEN [ContainerWith(0, "1") EXCEPT !.id = NewId(k)]
    ELSE [id |-> NewId(k),
          description |-> IF kind = "foreign" THEN <<"notes">>
                          ELSE IF kind = "nearmiss" THEN <<"old ", MARKER>>
                          ELSE NullDescription,
          files |-> [f \in {"notes.txt"} |-> JsonDumps(<<>>)]]

\* the gists GET /gists may list when a job looks for its container
Listings ==
    UNION {{[k \in 1..n |-> ListedGist(kinds[k], k)] : kinds \in [1..n -> GistKinds]}
           : n \in 0..MaxListed}

InitFind ==
    /\ gists \in Listings
    /\ hist0 = Histories(gists)
    /\ nextId = Len(gists)
    /\ AtRest

\* the two jobs up to the container they resolve
NextFind ==
    \/ \E b \in BOOLEAN : IdeaStart(b)
    \/ \E o \in StoreOutcomes : IdeaFindContainer(o)
    \/ \E b \in BOOLEAN : ArticleStart(b)
    \/ \E o \in StoreOutcomes : ArticleFindContainer(o)

SpecFind == InitFind /\ [][NextFind]_vars

\* the parts an answer to the article prompt is made of: prose before and
\* after, the article markers, and each field absent, empty or filled
ProseBefore == {<<>>, <<"prose", "ws">>}
ProseAfter == {<<>>, <<"ws", "prose">>}
TitleParts ==
    { <<>>, <<"<title>", "</title>">>,
      <<"<title>", "ws", "A1", "quote", "ws", "</title>">> }
BodyParts ==
    { <<>>, <<"<body>", "</body>">>, <<"<body>", "ws", "</body>">>,
      <<"<body>", "para", "</body>">>,
      <<"<body>", "ws", "para", "amp", "<b>", "nl", "quote", "bs", "n", "ws", "</body>">> }
TagName(i) == CASE i = 1 -> "h1" [] i = 2 -> "h2" [] OTHER -> "h3"
RECURSIVE TagList(_)
TagList(k) == IF k = 0 THEN <<>> ELSE TagList(k - 1) \o <<"<tag>", TagName(k), "</tag>">>
HashtagParts ==
    {<<>>} \cup {<<"<hashtags>">> \o TagList(k) \o <<"</hashtags>">> : k \in 0..MaxTags}
SummaryParts == {<<>>, <<"<summary>", "sum", "</summary>">>}
ReadTimeParts == {<<>>, <<"<estimated_read_time>", "7min", "</estimated_read_time>">>}

ParserInputs ==
    { pre \o (IF marked THEN <<"<article>", "ws">> ELSE <<>>)
          \o t \o b \o h \o sm \o e
          \o (IF marked THEN <<"ws", "</article>">> ELSE <<>>) \o post :
        pre \in ProseBefore, marked \in BOOLEAN, t \in TitleParts, b \in BodyParts,
        h \in HashtagParts, sm \in SummaryParts, e \in ReadTimeParts, post \in ProseAfter }

\* Cron Job 2 at the point where the provider has answered: the container
\* holds a selection of idea 1 and the response is any of ParserInputs
InitParse ==
    /\ gists = <<ContainerWith(0, "1")>>
    /\ hist0 = Histories(gists)
    /\ nextId = 1
    /\ IdeaAtRest
    /\ apc = "Parsing"
    /\ a_gist_id = NewId(1)
    /\ selection_data = StoredSelection(gists, NewId(1))
    /\ selected_idea = SelectIdea(selection_data).val
    /\ a_prompt = selected_idea
    /\ attempt = 0
    /\ waited = 0
    /\ a_response \in ParserInputs
    /\ a_error = ""
    /\ article = NoArticle
    /\ articles = <<>>
    /\ written = NothingWritten
    /\ alog = {"store_list", "store_get", "provider", "response"}
    /\ anote = <<>>

\* generate_article from the response on, the failure message and save_article
NextParse ==
    \/ ArticleParse
    \/ \E d \in Deliveries : ArticleReport(d.webhook, d.first, d.retry)
    \/ \E o \in SaveOutcomes : ArticlePersist(o)

SpecParse == InitParse /\ [][NextParse]_vars

\* the same program with a provider that does not always answer with three ideas
NextMiscount ==
    \/ Next
    \/ \E r \in MiscountedResponses : IdeaGenerate("ok", r)

SpecMiscount == Init /\ [][NextMiscount]_vars

\* ================================================================ claims
IsPrefix(a, b) == Len(a) <= Len(b) /\ SubSeq(b, 1, Len(a)) = a

\* the containers of gs, by id
Ids(gs) == {gs[i].id : i \in 1..Len(gs)}

\* C1: the history of a container never shrinks and never loses or changes an
\* entry it holds, whatever the jobs do and whichever store calls fail, and
\* one step of a run adds at most one entry.
C1_HistoryOnlyGrows ==
    [][\A id \in Ids(gists) :
          /\ id \in Ids(gists')
          /\ IsPrefix(StoredHistory(gists, id), StoredHistory(gists', id))
          /\ Len(StoredHistory(gists', id)) <= Len(StoredHistory(gists, id)) + 1]_vars

\* C2: a failed read of the store is fatal to IdeaProposalJob: after one, the
\* job goes no further, and its store write never replaces a history that has
\* entries by an empty one.
C2_ReadFailureIsFatal ==
    [][/\ "read_failed" \in ilog' => ipc' \in {"Raised", "Failed"}
       /\ ipc = "Persisting" =>
             \A id \in Ids(gists) :
                 StoredHistory(gists, id) # <<>> => StoredHistory(gists', id) # <<>>]_vars

\* C3: when an ArticleGenerationJob run is Done the history of its container is
\* one entry longer than when the run started, and when the run has Failed
\* (provider or parse error) the history is as it was.
C3_HistoryPlusOne ==
    /\ apc = "Done" =>
          Len(StoredHistory(gists, a_gist_id)) = Len(hist0[a_gist_id]) + 1
    /\ apc = "Failed" => StoredHistory(gists, a_gist_id) = hist0[a_gist_id]

\* C4: with 3 ideas and selection = k in 1..3, the idea the job selects, and
\* the idea its provider prompt is built from, is ideas[k-1] (the k-th idea).
C4_SelectsKth ==
    \A k \in 1..3 :
        (/\ apc \in {"Generating", "Parsing", "Reporting", "Failed", "Persisting",
                     "AppendingHistory", "WritingHistory", "Delivering", "Done"}
         /\ Len(selection_data.ideas) = 3
         /\ selection_data.selection = (<<"1", "2", "3">>)[k])
        => /\ selected_idea = selection_data.ideas[k]
           /\ "provider" \in alog => a_prompt = selection_data.ideas[k]

C4_Witness ==
    /\ apc = "Parsing"
    /\ selection_data.selection = "2"
    /\ Len(selection_data.ideas) = 3
    /\ a_prompt = selection_data.ideas[2]

\* the selection record has been read by the running ArticleGenerationJob
SelectionLoaded == selection_data # NoSelection

SideEffects == {"provider", "md_file", "meta_file", "debug_file", "history_read",
                "history_write", "notify", "deliver"}

\* C5: with a selection that is a number outside 1..(number of ideas) the run
\* raises at Validating and has no side effect: no provider call, no file, no
\* history access, no notification, no delivery.
C5_OutOfRangeRaises ==
    (/\ SelectionLoaded
     /\ selection_data.selection # "null"
     /\ PyInt(selection_data.selection) \notin 1..Len(selection_data.ideas))
    => /\ apc \in {"Validating", "Raised"}
       /\ alog \cap SideEffects = {}
       /\ written = NothingWritten
       /\ Histories(gists) = hist0

\* C6: with the selection unset the run ends as AwaitingSelection: it calls no
\* provider, writes no file, leaves every history as it was and sends the
\* reminder and nothing else.
C6_AwaitingSelection ==
    (SelectionLoaded /\ selection_data.selection = "null")
    => /\ apc \in {"Validating", "Reminding", "AwaitingSelection"}
       /\ alog \subseteq {"store_list", "store_get", "notify"}
       /\ written = NothingWritten
       /\ Histories(gists) = hist0
       /\ "notify" \in alog <=> apc = "AwaitingSelection"
       /\ apc = "AwaitingSelection" => Len(anote) = 1 /\ anote[1].kind = "reminder"

C6_Witness ==
    /\ apc = "AwaitingSelection"
    /\ SelectionLoaded
    /\ selection_data.selection = "null"
    /\ Len(anote) = 1

\* C7: the successful store write of IdeaProposalJob is one update that leaves,
\* in one container, the selection file with the new ideas and selection =
\* null and the history file with exactly the history the run had read; it is
\* the container the run had found, when it had found one.
C7_PersistBoth ==
    [][(ipc = "Persisting" /\ ipc' = "Notifying") =>
          \E i \in 1..Len(gists') :
              /\ StartsWith(gists'[i].description, description_prefix)
              /\ DOMAIN gists'[i].files = {SELECTION_FILE, HISTORY_FILE}
              /\ JsonLoads(gists'[i].files[SELECTION_FILE]).selection = "null"
              /\ JsonLoads(gists'[i].files[SELECTION_FILE]).ideas = ideas
              /\ JsonLoads(gists'[i].files[HISTORY_FILE]).articles = past_articles
              /\ i_gist_id # None => gists'[i].id = i_gist_id
              /\ i_gist_id = None => gists'[i].id \notin Ids(gists)
              /\ \A id \in Ids(gists') \ {gists'[i].id} :
                    id \in Ids(gists) /\ gists'[PosOf(gists', id)] = gists[PosOf(gists, id)]
              /\ "store_write" \notin ilog]_vars

C7_Witness ==
    /\ ipc = "Notifying"
    /\ past_articles # <<>>
    /\ StoredHistory(gists, i_gist_id) = past_articles
    /\ StoredSelection(gists, i_gist_id).selection = "null"

\* C8: an IdeaProposalJob run leaves every history as it found it (nothing is
\* duplicated, changed or dropped), and after its store write the selection
\* of the container is null.
C8_CarryForward ==
    [][ipc = "Persisting" =>
          /\ \A id \in Ids(gists) : StoredHistory(gists', id) = StoredHistory(gists, id)
          /\ ipc' = "Notifying" =>
                \E id \in Ids(gists') : /\ HasSelection(gists', id)
                                        /\ StoredSelection(gists', id).selection = "null"
                                        /\ StoredHistory(gists', id) = past_articles]_vars

\* C9: the history is read and written only once both article files (the
\* markdown file and the sidecar) are written, and as long as the sidecar is
\* not written every history is as it was when the run started.
C9_HistoryAfterFiles ==
    apc # "idle" =>
        /\ (alog \cap {"history_read", "history_write"}) # {} =>
              /\ written.md = {Markdown(article)}
              /\ written.meta = {json_dump(article)}
        /\ written.meta = {} => Histories(gists) = hist0

C9_Witness ==
    /\ apc = "Delivering"
    /\ "history_write" \in alog
    /\ written.meta # {}
    /\ Len(StoredHistory(gists, a_gist_id)) = Len(hist0[a_gist_id]) + 1

\* C10: when the response does not parse (ParseError, or ValueError for a
\* missing body) the run reports the failure and ends as Failed; it writes no
\* article file and leaves every history as it was.
C10_ParseFailure ==
    a_error \in {"ParseError", "ValueError"}
    => /\ apc \in {"Reporting", "Failed"}
       /\ written.md = {} /\ written.meta = {}
       /\ alog \cap {"history_read", "history_write", "deliver"} = {}
       /\ Histories(gists) = hist0
       /\ apc = "Failed" => Len(anote) = 1 /\ anote[1].kind = "failure"

C10_Witness ==
    /\ apc = "Failed"
    /\ a_error = "ParseError"
    /\ Len(anote) = 1
    /\ anote[1].kind = "failure"

C12_FatalNotRetried ==
    a_error = "Fatal" => attempt = 0 /\ waited = 0

\* C13: the ideas job retries its provider call too: the failure of its first
\* provider call does not end the run.
C13_IdeasRetried ==
    [][(ipc = "Generating" /\ "provider" \notin ilog) => ipc' # "Raised"]_vars

\* C14: in either job, a run whose provider call has failed for good ends
\* with a failure notification attempted and with nothing persisted: no
\* store write, no history change, no article file.
C14_ExhaustedReported ==
    /\ (apc = "Failed" /\ a_error \in ProviderErrors) =>
          /\ Len(anote) = 1 /\ anote[1].kind = "failure"
          /\ written = NothingWritten
          /\ alog \cap {"history_read", "history_write", "md_file", "meta_file"} = {}
          /\ Histories(gists) = hist0
    /\ (ipc \in IdeaTerminal /\ "provider_error" \in ilog) =>
          /\ "notify" \in ilog /\ Len(inote) = 1
          /\ "store_write" \notin ilog
          /\ Histories(gists) = hist0

C16_RawResponseKept ==
    /\ a_error \in {"ParseError", "ValueError"} =>
          /\ "debug_file" \in alog
          /\ written.debug \in {{r} : r \in ArticleResponses}
    /\ "parse_error" \in ilog => "debug_file" \in ilog

\* C17: the ideas job goes on with exactly 3 ideas, and every selection
\* record in the store holds exactly 3 ideas: an answer with fewer or more is
\* a parse failure and nothing of it is persisted.
C17_ExactlyThreeIdeas ==
    /\ ipc \in {"Persisting", "Notifying", "Done"} => Len(ideas) = 3
    /\ \A id \in Ids(gists) :
          HasSelection(gists, id) => Len(StoredSelection(gists, id).ideas) = 3

\* C18: in the ideas job the notification is the last step and its failure
\* (HTTP error, rate limit that persists after the retry, timeout) changes
\* nothing in the store: the run still ends as Done with its record persisted.
C18_IdeasNotifyBestEffort ==
    [][ipc = "Notifying" =>
          /\ ipc' = "Done"
          /\ gists' = gists
          /\ Len(inote') = 1
          /\ \E id \in Ids(gists') : /\ HasSelection(gists', id)
                                     /\ StoredSelection(gists', id).ideas = ideas
                                     /\ StoredSelection(gists', id).selection = "null"]_vars

C18_Witness ==
    /\ ipc = "Done"
    /\ Len(inote) = 1
    /\ inote[1].attempts = 2
    /\ ~inote[1].delivered
    /\ \E id \in Ids(gists) : /\ HasSelection(gists, id)
                              /\ StoredSelection(gists, id).ideas = ideas

\* C19: in the article job the delivery is the last step and its failure
\* changes neither the store nor the article files: the run still ends as
\* Done, with the history entry it appended still in place.
C19_DeliveryBestEffort ==
    [][apc = "Delivering" =>
          /\ apc' = "Done"
          /\ gists' = gists
          /\ written' = written
          /\ written.md # {} /\ written.meta # {}
          /\ Len(anote') = 1]_vars

C19_Witness ==
    /\ apc = "Done"
    /\ Len(anote) = 1
    /\ anote[1].attempts >= 1
    /\ ~anote[1].delivered
    /\ written.md = {Markdown(article)}
    /\ "write_failed" \notin alog
    /\ Len(StoredHistory(gists, a_gist_id)) = Len(hist0[a_gist_id]) + 1

\* C20: a job that finds a required secret missing when it starts ends at
\* once and has attempted nothing: no store call, no provider call, no
\* notification, no file.
C20_MissingSecret ==
    [][/\ ipc' = "ConfigError" => ilog' = {} /\ inote' = <<>> /\ gists' = gists
       /\ ipc = "ConfigError" => ipc' = "idle" /\ gists' = gists
       /\ apc' = "ConfigError" =>
             /\ alog' = {} /\ anote' = <<>> /\ gists' = gists
             /\ written' = NothingWritten
       /\ apc = "ConfigError" => apc' = "idle" /\ gists' = gists]_vars

C20_Witness ==
    /\ apc = "ConfigError"
    /\ alog = {}
    /\ anote = <<>>

\* C21: the history write of the article job changes the history file only:
\* after it, the selection file of the same container holds the ideas and
\* the selection value the run has read.
C21_HistoryWriteOnly ==
    (apc \in {"Delivering", "Done"} /\ "history_write" \in alog) =>
        /\ HasSelection(gists, a_gist_id)
        /\ StoredSelection(gists, a_gist_id) = selection_data

C21_Witness ==
    /\ apc = "Delivering"
    /\ alog \cap {"history_write", "write_failed"} = {"history_write"}
    /\ StoredHistory(gists, a_gist_id) = articles
    /\ StoredSelection(gists, a_gist_id).selection = "2"

\* C22: the article job only reads the selection record: no step of a run
\* of it, however the run ends, removes a container or changes the ideas or
\* the selection value stored in one.
C22_SelectionReadOnly ==
    [][apc # "idle" =>
          \A id \in Ids(gists) :
              /\ id \in Ids(gists')
              /\ HasSelection(gists, id) =>
                    /\ HasSelection(gists', id)
                    /\ StoredSelection(gists', id) = StoredSelection(gists, id)]_vars

C22_Witness ==
    /\ apc = "Done"
    /\ Len(StoredHistory(gists, a_gist_id)) = Len(hist0[a_gist_id]) + 1
    /\ StoredSelection(gists, a_gist_id).ideas = selection_data.ideas
    /\ StoredSelection(gists, a_gist_id).selection = "1"

\* the notifications of the runs in progress
Notes == {inote[k] : k \in 1..Len(inote)} \cup {anote[k] : k \in 1..Len(anote)}

\* C23: a message or file delivery makes at most 2 requests; a rate-limit
\* answer (429) to the first one is followed by exactly one wait of 10 and
\* exactly one retry, and the delivery is given up when the retry fails too;
\* any other answer is followed by no wait for the rate limit and no retry.
C23_RateLimitRetry ==
    \A n \in Notes :
        /\ n.attempts <= 2
        /\ Len(n.statuses) = n.attempts
        /\ n.attempts >= 1 =>
              IF n.statuses[1] = "429"
              THEN /\ n.attempts = 2
                   /\ n.rate_wait = 10
                   /\ n.delivered = (n.statuses[2] = "200")
              ELSE /\ n.attempts = 1
                   /\ n.rate_wait = 0
                   /\ n.delivered = (n.statuses[1] = "200")

C23_Witness ==
    /\ apc = "Done"
    /\ Len(anote) = 1
    /\ anote[1].kind = "file"
    /\ anote[1].statuses = <<"429", "429">>
    /\ anote[1].rate_wait = 10
    /\ ~anote[1].delivered

\* C24: the prompt of the ideas job names the last min(50, n) of the n
\* history entries the run has loaded and no older one, while the history
\* file the run writes holds all n entries.
C24_PromptWindow ==
    LET n == Len(past_articles)
        m == IF n <= 50 THEN n ELSE 50
    IN  /\ "provider" \in ilog =>
              /\ Len(i_prompt) = m
              /\ \A k \in 1..n :
                    (\E j \in 1..Len(i_prompt) : i_prompt[j].title = past_articles[k].title)
                    <=> k > n - m
        /\ (ipc \in {"Notifying", "Done"} /\ i_gist_id # None) =>
              StoredHistory(gists, i_gist_id) = past_articles

C24_Witness ==
    /\ ipc = "Notifying"
    /\ Len(past_articles) = 51
    /\ Len(i_prompt) = 50
    /\ i_prompt[1] = past_articles[2]
    /\ Len(StoredHistory(gists, i_gist_id)) = 51

\* C25: when the store lists no container with the marker prefix, the ideas
\* job does not fail for that: it goes on with an empty history, without
\* reading any file, and its store write creates a container that holds the
\* selection record and a history file with no entry.
C25_NoContainerIsEmpty ==
    (ipc # "idle" /\ "store_list" \in ilog /\ "read_failed" \notin ilog
       /\ \A id \in DOMAIN hist0 : PosOf(gists, id) \notin MarkerGists(gists))
    => /\ ipc = "Raised" => ilog \cap {"provider_error", "parse_error", "write_failed"} # {}
       /\ i_gist_id = None
       /\ past_articles = <<>>
       /\ "store_get" \notin ilog
       /\ ipc \in {"Notifying", "Done"} =>
             \E i \in 1..Len(gists) :
                 /\ gists[i].id \notin DOMAIN hist0
                 /\ StartsWith(gists[i].description, description_prefix)
                 /\ DOMAIN gists[i].files = {SELECTION_FILE, HISTORY_FILE}
                 /\ JsonLoads(gists[i].files[SELECTION_FILE]).ideas = ideas
                 /\ JsonLoads(gists[i].files[SELECTION_FILE]).selection = "null"
                 /\ JsonLoads(gists[i].files[HISTORY_FILE]).articles = <<>>

C25_Witness ==
    /\ ipc = "Done"
    /\ i_gist_id = None
    /\ "read_failed" \notin ilog
    /\ DOMAIN hist0 = {}
    /\ Len(gists) = 1
    /\ StoredHistory(gists, gists[1].id) = <<>>
    /\ Len(ideas) = 3

\* id is what first match wins gives for the gists listed
IsFirstMatch(id) ==
    IF MarkerGists(gists) = {} THEN id = None
    ELSE \E i \in MarkerGists(gists) :
            /\ gists[i].id = id
            /\ \A j \in MarkerGists(gists) : i <= j

\* C26: once the gists are listed, each job holds the id of the first gist,
\* in the order of the listing, whose description starts with the marker
\* prefix, and none when no listed gist matches: both jobs resolve the same
\* container.
C26_FirstMatchWins ==
    /\ (ilog = {"store_list"} /\ ipc # "FindingContainer") =>
          /\ ipc = "LoadingHistory"
          /\ IsFirstMatch(i_gist_id)
    /\ (alog = {"store_list"} /\ apc # "FindingContainer") =>
          /\ apc = (IF MarkerGists(gists) = {} THEN "NoContainer" ELSE "LoadingSelection")
          /\ IsFirstMatch(a_gist_id)

\* C27: the sidecar save_article writes reads back as the article of the run,
\* field by field (title, body, hashtags, summary, estimated_read_time), and
\* the markdown file written by the same call renders that same article.
C27_SidecarRoundTrip ==
    written.meta # {} =>
        /\ \A text \in written.meta :
              /\ json_load(text).title = article.title
              /\ json_load(text).body = article.body
              /\ json_load(text).hashtags = article.hashtags
              /\ json_load(text).summary = article.summary
              /\ json_load(text).estimated_read_time = article.estimated_read_time
        /\ written.md = {Markdown(article)}

C27_Witness ==
    /\ apc = "AppendingHistory"
    /\ written.meta # {}
    /\ Contains(article.body, "bs")
    /\ Contains(article.body, "nl")
    /\ Contains(article.title, "quote")
    /\ Len(article.hashtags) = 2

\* the response carries both article markers
Marked(r) == Contains(r, "<article>") /\ Contains(r, "</article>")

\* the response carries a body: an opening delimiter and a closing one after it
HasBody(r) ==
    \E p, q \in 1..Len(r) : p < q /\ r[p] = "<body>" /\ r[q] = "</body>"

\* what stands between the opening body delimiter and the first closing one
BodyContent(r) ==
    SubSeq(r, FirstAfter(r, "<body>", 0) + 1,
           FirstAfter(r, "</body>", FirstAfter(r, "<body>", 0)) - 1)

\* b is c without its leading and trailing whitespace
Trimmed(b, c) ==
    /\ \E x, y \in 0..Len(c) :
          /\ x + y <= Len(c)
          /\ b = SubSeq(c, x + 1, Len(c) - y)
          /\ \A k \in 1..x : c[k] = "ws"
          /\ \A k \in (Len(c) - y + 1)..Len(c) : c[k] = "ws"
    /\ b # <<>> => b[1] # "ws" /\ b[Len(b)] # "ws"

\* the response from its opening article marker to its closing one
Payload(r) == SubSeq(r, FirstAfter(r, "<article>", 0), FirstAfter(r, "</article>", 0))

\* C28 as stated: for a response with prose around a marked payload whose
\* body holds more than whitespace, the parser returns a non-empty body equal
\* to the literal content between the body delimiters.
C28_BodyLiteral ==
    [][(apc = "Parsing" /\ Marked(a_response) /\ HasBody(a_response)
          /\ \E k \in 1..Len(BodyContent(a_response)) : BodyContent(a_response)[k] # "ws")
       => /\ apc' = "Persisting"
          /\ article'.body # <<>>
          /\ article'.body = BodyContent(a_response)]_vars

\* C28 amended: for a response with prose around a marked payload that has a
\* body, the parser returns as body the content between the body delimiters
\* without its leading and trailing whitespace, markup-like tokens and
\* newlines inside it kept as they are; the body is not empty when that
\* content holds anything but whitespace; and every field is what the
\* payload alone, without the prose, gives.
C28_BodyTrimmed ==
    [][(apc = "Parsing" /\ Marked(a_response) /\ HasBody(a_response))
       => /\ apc' = "Persisting"
          /\ Trimmed(article'.body, BodyContent(a_response))
          /\ (\E k \in 1..Len(BodyContent(a_response)) : BodyContent(a_response)[k] # "ws")
                => article'.body # <<>>
          /\ article' = ParseArticle(Payload(a_response)).article]_vars

C28_Witness ==
    /\ apc = "Persisting"
    /\ article.body = <<"para", "amp", "<b>", "nl", "quote", "bs", "n">>
    /\ article.title = <<"A1", "quote">>

\* C29 as stated: the parser fails whenever the article markers are absent
\* from the response and whenever the body is absent, and returns no article
\* in those cases.
C29_MarkersMandatory ==
    [][(apc = "Parsing" /\ (~Marked(a_response) \/ ~HasBody(a_response)))
       => /\ apc' = "Reporting"
          /\ a_error' \in {"ParseError", "ValueError"}
          /\ article' = NoArticle]_vars

\* C29 amended: the parser fails whenever the body is absent and returns no
\* article then; when the article markers are absent it reads the whole
\* response in place of the payload, and fails exactly when the body is
\* absent or the whole response, its body put aside, is not one well-formed
\* element.
C29_BodyMandatory ==
    [][apc = "Parsing" =>
          /\ ~HasBody(a_response) =>
                /\ apc' = "Reporting"
                /\ a_error' = "ValueError"
                /\ article' = NoArticle
          /\ (~Marked(a_response) /\ HasBody(a_response)) =>
                IF WellFormed(SubBody(a_response))
                THEN /\ apc' = "Persisting"
                     /\ Trimmed(article'.body, BodyContent(a_response))
                ELSE /\ apc' = "Reporting"
                     /\ a_error' = "ParseError"
                     /\ article' = NoArticle]_vars

C29_Witness ==
    /\ apc = "Reporting"
    /\ a_error = "ValueError"
    /\ article = NoArticle
    /\ \E r \in written.debug : Marked(r) /\ ~HasBody(r)

\* C30 as stated: when title, hashtags, summary or estimated_read_time is
\* missing from an otherwise well-formed payload, parsing succeeds and the
\* field is the empty string, or the empty sequence for hashtags.
C30_DefaultsEmpty ==
    [][(apc = "Parsing" /\ Marked(a_response) /\ HasBody(a_response))
       => /\ apc' = "Persisting"
          /\ ~Contains(a_response, "<title>") => article'.title = <<>>
          /\ ~Contains(a_response, "<hashtags>") => article'.hashtags = <<>>
          /\ ~Contains(a_response, "<summary>") => article'.summary = <<>>
          /\ ~Contains(a_response, "<estimated_read_time>")
                => article'.estimated_read_time = <<>>]_vars

\* C30 amended: when title, hashtags, summary or estimated_read_time is
\* missing from an otherwise well-formed payload, parsing succeeds; title and
\* summary are then the empty string, hashtags the empty sequence, and
\* estimated_read_time the text "5 minutes" ("5min").
C30_Defaults ==
    [][(apc = "Parsing" /\ Marked(a_response) /\ HasBody(a_response))
       => /\ apc' = "Persisting"
          /\ ~Contains(a_response, "<title>") => article'.title = <<>>
          /\ ~Contains(a_response, "<hashtags>") => article'.hashtags = <<>>
          /\ ~Contains(a_response, "<summary>") => article'.summary = <<>>
          /\ ~Contains(a_response, "<estimated_read_time>")
                => article'.estimated_read_time = <<"5min">>]_vars

C30_Witness ==
    /\ apc = "Persisting"
    /\ article.body = <<"para">>
    /\ article.title = <<>>
    /\ article.hashtags = <<>>
    /\ article.summary = <<>>
    /\ article.estimated_read_time = <<"5min">>

\* ------------------------------------------- the two jobs at the same time
\* both schedules fire together: each process has read its secrets and is
\* about to list the containers; the container is as earlier runs left it
InitRace ==
    /\ gists \in {<<ContainerWith(n, "1")>> : n \in 0..1}
    /\ hist0 = Histories(gists)
    /\ nextId = 1
    /\ ipc = "FindingContainer"
    /\ i_gist_id = None
    /\ past_articles = <<>>
    /\ i_prompt = <<>>
    /\ i_response = <<>>
    /\ ideas = <<>>
    /\ ilog = {"concurrent"}
    /\ inote = <<>>
    /\ apc = "FindingContainer"
    /\ a_gist_id = None
    /\ selection_data = NoSelection
    /\ selected_idea = NoIdea
    /\ a_prompt = NoIdea
    /\ attempt = 0
    /\ waited = 0
    /\ a_response = <<>>
    /\ a_error = ""
    /\ article = NoArticle
    /\ articles = <<>>
    /\ written = NothingWritten
    /\ alog = {"concurrent"}
    /\ anote = <<>>

\* the steps of the two processes interleave; later runs come one at a time
SpecRace == InitRace /\ [][Next]_vars

\* the current run shares no time with a run of the other job
Alone == "concurrent" \notin (ilog \cup alog)

\* C31: the history read-modify-write is not atomic across jobs. Whatever
\* an ArticleGenerationJob appended after IdeaProposalJob read the history,
\* IdeaProposalJob's store write leaves its own copy of the history as the
\* blob, so that entry is lost; a step of a run that shares no time with
\* another run and whose store calls all succeeded loses no entry.
C31_LostUpdate ==
    [][/\ (ipc = "Persisting" /\ ipc' = "Notifying" /\ i_gist_id # None)
          => StoredHistory(gists', i_gist_id) = past_articles
       /\ (Alone /\ {"read_failed", "write_failed"} \cap (ilog' \cup alog') = {})
          => \A id \in Ids(gists) :
                IsPrefix(StoredHistory(gists, id), StoredHistory(gists', id))]_vars

\* an append that succeeded between the read and the write of a concurrent
\* IdeaProposalJob is no longer in the stored history
C31_Witness ==
    /\ ipc = "Notifying"
    /\ "concurrent" \in ilog
    /\ {"read_failed", "write_failed"} \cap (ilog \cup alog) = {}
    /\ "history_write" \in alog
    /\ StoredHistory(gists, i_gist_id) = past_articles
    /\ Len(articles) = Len(past_articles) + 1
    /\ Last(articles) = HistoryEntry(article.title, selected_idea.category)

\* ------------------------------------- Cron Job 2 again on the same record
\* the day before the runs of the model
Yesterday == "2024-12-31"

RecordDates == {Today, Yesterday}

\* the container as Cron Job 1 left it on `day`, with the selection as it is now
ContainerDated(day, selection) ==
    [ContainerWith(0, selection) EXCEPT
        !.description = Description(day),
        !.files[SELECTION_FILE] = JsonDumps([JsonLoads(@) EXCEPT !.date = day])]

InitRerun ==
    /\ gists \in {<<ContainerDated(d, lit)>> : d \in RecordDates,
                                                     lit \in {"null", "1", "2", "3"}}
    /\ hist0 = Histories(gists)
    /\ nextId = 1
    /\ AtRest

\* runs of Cron Job 2 only: no run of Cron Job 1 and no edit come between
SpecRerun == InitRerun /\ [][ArticleJob]_vars

\* C32: ArticleGenerationJob neither clears nor marks the selection it has
\* consumed and does not look at the record's date: every run that reads
\* a record with a selection in 1..3 goes on to generate from the idea selected, whatever the
\* history already holds and whatever day the record is of, and a history
\* write that succeeds adds one more entry of that idea and leaves the
\* record as it was.
C32_Regenerates ==
    [][/\ (apc = "Validating" /\ selection_data.selection \in {"1", "2", "3"}) =>
            /\ apc' = "Generating"
            /\ selected_idea' = StoredSelection(gists, a_gist_id).ideas[
                                    PyInt(StoredSelection(gists, a_gist_id).selection)]
       /\ (apc = "WritingHistory" /\ {"read_failed", "write_failed"} \cap alog' = {}) =>
            /\ StoredHistory(gists', a_gist_id) =
                   Append(StoredHistory(gists, a_gist_id),
                          HistoryEntry(article.title, selected_idea.category))
            /\ StoredSelection(gists', a_gist_id) = StoredSelection(gists, a_gist_id)]_vars

\* a second run on a record of the day before has appended the entry that
\* the first run appended
C32_Witness ==
    /\ apc = "Done"
    /\ selection_data.date = Yesterday
    /\ Len(hist0[a_gist_id]) >= 1
    /\ StoredHistory(gists, a_gist_id) = Append(hist0[a_gist_id], Last(hist0[a_gist_id]))
    /\ StoredSelection(gists, a_gist_id) = selection_data

\* the ids of the containers, in the store's enumeration order
IdSeq(gs) == [i \in 1..Len(gs) |-> gs[i].id]

\* C33: every container IdeaProposalJob creates or updates has a description
\* that starts with the marker prefix, so a later run of either job whose
\* listing succeeds finds a container; a run of IdeaProposalJob whose store
\* reads succeeded creates a container only when there is none, and
\* otherwise updates the one it found, whose id stays as it was.
C33_OneContainer ==
    [][/\ \A i \in 1..Len(gists') : StartsWith(gists'[i].description, description_prefix)
       /\ (ipc = "FindingContainer" /\ gists # <<>> /\ "read_failed" \notin ilog')
             => i_gist_id' \in Ids(gists)
       /\ (apc = "FindingContainer" /\ gists # <<>> /\ "read_failed" \notin alog')
             => a_gist_id' \in Ids(gists)
       /\ (ipc = "Persisting" /\ gists # <<>> /\ "read_failed" \notin ilog)
             => /\ IdSeq(gists') = IdSeq(gists)
                /\ nextId' = nextId
       /\ (ipc = "Persisting" /\ gists = <<>>) => Len(gists') <= 1]_vars

\* a later run of IdeaProposalJob has found the container the first run
\* created and has updated it: it is still the only one
C33_Witness ==
    /\ ipc = "Notifying"
    /\ "read_failed" \notin ilog
    /\ i_gist_id = NewId(1)
    /\ nextId = 1
    /\ IdSeq(gists) = <<NewId(1)>>
    /\ StartsWith(gists[1].description, description_prefix)
    /\ StoredSelection(gists, i_gist_id).ideas = ideas

\* C34: in IdeaProposalJob the ideas notification is sent only after the
\* store write has succeeded: a run whose write failed has ended without any
\* notification, and while a run is at or past its notification the store
\* holds a SelectionRecord with the ideas the message is about.
C34_NotifyAfterWrite ==
    /\ "write_failed" \in ilog =>
          /\ ipc \in {"Failed", "Raised"}
          /\ inote = <<>>
          /\ "notify" \notin ilog
    /\ (ipc = "Notifying" \/ "notify" \in ilog) =>
          /\ "store_write" \in ilog
          /\ "write_failed" \notin ilog
          /\ \E i \in MarkerGists(gists) :
                /\ SELECTION_FILE \in DOMAIN gists[i].files
                /\ JsonLoads(gists[i].files[SELECTION_FILE]).ideas = ideas
                /\ JsonLoads(gists[i].files[SELECTION_FILE]).selection = "null"

\* a write the store refused has ended the run with no message sent
C34_Witness ==
    /\ ipc = "Failed"
    /\ "write_failed" \in ilog
    /\ Len(ideas) = 3
    /\ inote = <<>>

\* C35: in ArticleGenerationJob a failed history write is not a job failure:
\* the history is as it was when the run started, the article is saved,
\* and the run goes on to the delivery and ends as Done.
C35_HistoryFailureTolerated ==
    "write_failed" \in alog =>
        /\ Histories(gists) = hist0
        /\ written.md # {}
        /\ apc \in {"Delivering", "Done"}
        /\ apc = "Done" => "deliver" \in alog

\* C36: when ArticleGenerationJob finds no container or cannot read the
\* selection blob it ends there: no step of the lookup or of the read
\* changes the store, and the run that ends so has made no provider call,
\* has written no artifact, has neither read nor written the history and
\* has sent no notification.
C36_NothingWithoutSelection ==
    [][/\ apc \in {"FindingContainer", "LoadingSelection"} =>
            /\ gists' = gists
            /\ nextId' = nextId
       /\ apc' \in {"NoContainer", "ReadFailed"} =>
            /\ alog' \cap (SideEffects \cup {"response"}) = {}
            /\ attempt' = 0
            /\ written' = NothingWritten
            /\ anote' = <<>>
            /\ ~ArticleRunning']_vars

\* the container is there but its selection blob could not be read
C36_Witness ==
    /\ apc = "ReadFailed"
    /\ a_gist_id \in Ids(gists)
    /\ HasSelection(gists, a_gist_id)
    /\ alog = {"store_list", "store_get", "read_failed"}
    /\ anote = <<>>
    /\ Histories(gists) = hist0

\* ------------------------------------------------ store calls that hang
\* GistManager of Cron Job 1 calls requests.get/patch/post without a timeout:
\* when the store accepts the request and never answers, the call does not
\* return and the process stays in it
IdeaStoreStall ==
    /\ \/ ipc \in {"FindingContainer", "Persisting"}
       \/ ipc = "LoadingHistory" /\ i_gist_id # None
    /\ ipc' = "Blocked"
    /\ ilog' = ilog \cup {"store_stall"}
    /\ UNCHANGED <<i_gist_id, past_articles, i_prompt, i_response, ideas, inote>>
    /\ UNCHANGED <<svars, avars>>

\* GistManager of Cron Job 2: requests.get/patch without a timeout
ArticleStoreStall ==
    /\ apc \in {"FindingContainer", "LoadingSelection", "AppendingHistory",
                "WritingHistory"}
    /\ apc' = "Blocked"
    /\ alog' = alog \cup {"store_stall"}
    /\ UNCHANGED <<a_gist_id, selection_data, selected_idea, a_prompt, attempt, waited,
                   a_response, a_error, article, articles, written, anote>>
    /\ UNCHANGED <<svars, ivars>>

NextLive == Next \/ IdeaStoreStall \/ ArticleStoreStall

\* a process that has started keeps executing: every step it can take, it
\* takes; nothing makes a call that hangs return
SpecLive ==
    /\ Init
    /\ [][NextLive]_vars
    /\ WF_vars(ipc # "idle" /\ IdeaJob)
    /\ WF_vars(apc # "idle" /\ ArticleJob)

\* C37: every job invocation terminates: whatever the provider, the store
\* and the notification service do, a run that has started reaches a
\* terminal outcome, after at most 3 provider attempts and at most 2 send
\* attempts per notification.
C37_Terminates ==
    /\ (ipc # "idle") ~> (ipc \in IdeaTerminal)
    /\ (apc # "idle") ~> (apc \in ArticleTerminal)
    /\ [](/\ attempt <= max_retries
          /\ \A n \in Notes : n.attempts <= 2)

====
